---- MODULE Spec2Model ----
(* streamz/sinks.py, class to_kafka: the sink that forwards items to a       *)
(* Kafka producer.  update() hands out one tornado Future per item and       *)
(* schedules a submission coroutine on the IO loop; the producer's delivery  *)
(* callback cb() pops self.futures and resolves what it popped; poll() and   *)
(* flush() are the two places from which the producer serves callbacks.      *)
EXTENDS Integers, Sequences, FiniteSets, TLC

(* ---------------------------------------------------------------- bounds *)
MaxItems == 3        \* update() calls in one run
BufferCap == 1       \* messages the producer holds before BufferError
MaxBufErrs == 1      \* BufferError retries of one item in one run
MaxSpurious == 1     \* callbacks without a submission (SpecViolation only)
MaxDeliveries == 2   \* update() calls on sink and sink_to_textfile
TeardownItems == 2   \* update() calls in one run of SpecTeardown

Values == {"x", "y"} \* payloads passed to update()
None == "None"
KafkaError == "KafkaError"
Handles == 1..MaxItems

VARIABLES
    received,   \* payloads passed to update(), in call order; item i = received[i]
    futures,    \* self.futures: handles (item numbers) in list order
    fut,        \* the Future returned for item i: state, exception carried
    taskq,      \* IO loop callbacks added by update() and not yet run
    sleepq,     \* submission coroutines suspended in gen.sleep(polltime)
    task,       \* outcome of the submission coroutine of item i
    bufErrs,    \* BufferErrors raised so far for item i
    inflight,   \* producer: accepted messages whose callback has not run
    accepted,   \* producer: every accepted message, in acceptance order
    emitted,    \* values passed to self._emit
    stopped,    \* self.stopped
    pollpc,     \* position of the poll() coroutine
    cbLog,      \* one record per invocation of cb
    taskErrs,   \* exceptions that left a submission coroutine
    resolved,   \* handles in the order they were resolved
    spurious,   \* callbacks invoked by the producer without a submission
    last,       \* the operation that produced this state
    global_sinks, \* _global_sinks: the sinks registered
    sinks       \* the sink objects constructed: kind, fields, what they did

vars == <<received, futures, fut, taskq, sleepq, task, bufErrs, inflight,
          accepted, emitted, stopped, pollpc, cbLog, taskErrs, resolved,
          spurious, last, global_sinks, sinks>>

(* the state of the to_kafka instance, and that of the other sinks *)
kafkaVars == <<received, futures, fut, taskq, sleepq, task, bufErrs, inflight,
               accepted, emitted, stopped, pollpc, cbLog, taskErrs, resolved,
               spurious>>
sinkVars == <<global_sinks, sinks>>

(* one object of each class of sinks.py; a sink is named by its class *)
SinkKinds == {"sink", "sink_to_textfile"}      \* the subclasses of Sink
Kinds == SinkKinds \cup {"to_kafka"}           \* to_kafka subclasses Stream
SinkIds == Kinds
NoSink == [kind |-> "none"]

(* ------------------------------------------------------------ the Future *)
NewFuture == [st |-> "pending", exc |-> None]
NoFuture == [st |-> "none", exc |-> None]

(* the message object the producer passes to cb; present = FALSE is None *)
NoMsg == [present |-> FALSE, value |-> None, error |-> None]
Msg(v, e) == [present |-> TRUE, value |-> v, error |-> e]

(* What the producer may report for a message whose payload was v: the     *)
(* error and the message that it passes to cb.  confluent_kafka reports    *)
(* success as (None, msg) and a failed delivery as (err, msg), msg holding *)
(* the payload in both; cb also has paths for a missing message and for a  *)
(* message without value, reports 3 and 4.                                 *)
ReportKinds == 1..4
Report(kind, v) ==
    CASE kind = 1 -> [err |-> None,       msg |-> Msg(v, None)]
      [] kind = 2 -> [err |-> KafkaError, msg |-> Msg(v, KafkaError)]
      [] kind = 3 -> [err |-> KafkaError, msg |-> NoMsg]
      [] OTHER    -> [err |-> None,       msg |-> Msg(None, KafkaError)]

(* ------------------------------------------------------------------ cb   *)
(* One run of the coroutine cb(err, msg) on the list q and the futures f.  *)
(* gen.coroutine captures whatever the body raises in the Future that the  *)
(* call returns; the producer drops that Future, so nothing is raised to   *)
(* the invoker: raised is None on every path, and exc names what was       *)
(* captured.  handle is the popped handle (0: nothing popped), emit the    *)
(* values passed to self._emit.                                            *)
cbResult(q, f, h, did, exc, emit) ==
    [futures |-> q, fut |-> f, handle |-> h, did |-> did, exc |-> exc,
     raised |-> None, emit |-> emit]

(* cb with self.futures.pop() in place of self.futures.pop(0) *)
cb_popLast(q, f, err, msg) ==
    IF q = <<>>
    THEN cbResult(q, f, 0, None, "IndexError", <<>>)
    ELSE LET future == q[Len(q)]
             q1 == SubSeq(q, 1, Len(q) - 1)
         IN  IF msg.present /\ msg.value # None
             THEN IF f[future].st # "pending"
                  THEN cbResult(q1, f, future, None, "InvalidStateError", <<>>)
                  ELSE cbResult(q1, [f EXCEPT ![future].st = "result"],
                                future, "set_result", None, <<msg.value>>)
             ELSE IF f[future].st # "pending"
                  THEN cbResult(q1, f, future, None, "InvalidStateError", <<>>)
                  ELSE cbResult(q1,
                         [f EXCEPT ![future] =
                             [st |-> "exception",
                              exc |-> IF err # None THEN err ELSE msg.error]],
                         future, "set_exception", None, <<>>)

(* cb without the call future.set_result(None) on the success path *)
cb_noResolve(q, f, err, msg) ==
    IF q = <<>>
    THEN cbResult(q, f, 0, None, "IndexError", <<>>)
    ELSE IF msg.present /\ msg.value # None
         THEN cbResult(Tail(q), f, Head(q), None, None, <<msg.value>>)
         ELSE cbResult(Tail(q),
                [f EXCEPT ![Head(q)] =
                    [st |-> "exception",
                     exc |-> IF err # None THEN err ELSE msg.error]],
                Head(q), "set_exception", None, <<>>)

cb(q, f, err, msg) ==
    IF q = <<>>
    THEN cbResult(q, f, 0, None, "IndexError", <<>>)
    ELSE LET future == Head(q)
             q1 == Tail(q)
         IN  IF msg.present /\ msg.value # None
             THEN IF f[future].st # "pending"
                  THEN cbResult(q1, f, future, None, "InvalidStateError", <<>>)
                  ELSE cbResult(q1, [f EXCEPT ![future].st = "result"],
                                future, "set_result", None, <<msg.value>>)
             ELSE IF err = None /\ ~msg.present
                  THEN cbResult(q1, f, future, None, "AttributeError", <<>>)
                  ELSE LET e == IF err # None THEN err ELSE msg.error
                       IN  IF f[future].st # "pending"
                           THEN cbResult(q1, f, future, None,
                                         "InvalidStateError", <<>>)
                           ELSE IF e = None
                                THEN cbResult(q1, f, future, None,
                                              "TypeError", <<>>)
                                ELSE cbResult(q1,
                                       [f EXCEPT ![future] =
                                           [st |-> "exception", exc |-> e]],
                                       future, "set_exception", None, <<>>)

(* the sink after the producer has served the callbacks of items, one      *)
(* after the other, with the given reports                                 *)
RECURSIVE serve(_, _, _)
serve(s, items, kinds) ==
    IF items = <<>>
    THEN s
    ELSE LET i == Head(items)
             rep == Report(Head(kinds), IF i = 0 THEN None ELSE received[i])
             r == cb(s.futures, s.fut, rep.err, rep.msg)
             entry == [item |-> i, err |-> rep.err, msg |-> rep.msg,
                       handle |-> r.handle, did |-> r.did, exc |-> r.exc,
                       raised |-> r.raised, emit |-> r.emit]
         IN  serve([futures |-> r.futures,
                    fut |-> r.fut,
                    emitted |-> s.emitted \o r.emit,
                    cbLog |-> Append(s.cbLog, entry),
                    resolved |-> IF r.did # None
                                 THEN Append(s.resolved, r.handle)
                                 ELSE s.resolved],
                   Tail(items), Tail(kinds))

Sink == [futures |-> futures, fut |-> fut, emitted |-> emitted,
         cbLog |-> cbLog, resolved |-> resolved]

SetSink(s) ==
    /\ futures' = s.futures
    /\ fut' = s.fut
    /\ emitted' = s.emitted
    /\ cbLog' = s.cbLog
    /\ resolved' = s.resolved

Prefix(q, k) == SubSeq(q, 1, k)
Drop(q, k) == SubSeq(q, k + 1, Len(q))

(* ----------------------------------------------------------------- Init *)
Init ==
    /\ received = <<>>
    /\ futures = <<>>
    /\ fut = [h \in Handles |-> NoFuture]
    /\ taskq = <<>>
    /\ sleepq = <<>>
    /\ task = [h \in Handles |-> "none"]
    /\ bufErrs = [h \in Handles |-> 0]
    /\ inflight = <<>>
    /\ accepted = <<>>
    /\ emitted = <<>>
    /\ stopped = FALSE
    /\ pollpc = "scheduled"
    /\ cbLog = <<>>
    /\ taskErrs = <<>>
    /\ resolved = <<>>
    /\ spurious = 0
    /\ last = [op |-> "init", arg |-> 0, ret |-> 0]
    /\ global_sinks = {}
    /\ sinks = [id \in SinkIds |-> NoSink]

(* --------------------------------------------------------------- update *)
update(x) ==
    /\ Len(received) < MaxItems
    /\ LET future == Len(received) + 1
       IN  /\ received' = Append(received, x)
           /\ fut' = [fut EXCEPT ![future] = NewFuture]
           /\ futures' = Append(futures, future)
           /\ taskq' = Append(taskq, future)
           /\ task' = [task EXCEPT ![future] = "scheduled"]
           /\ last' = [op |-> "update", arg |-> future, ret |-> 0]
    /\ UNCHANGED <<sleepq, bufErrs, inflight, accepted, emitted, stopped,
                   pollpc, cbLog, taskErrs, resolved, spurious>>
    /\ UNCHANGED sinkVars

(* one pass of the while loop of the submission coroutine of item i:       *)
(* producer.produce either accepts, raises BufferError (its buffer is      *)
(* full) or raises something else                                          *)
ProduceOutcomes ==
    (IF Len(inflight) < BufferCap THEN {"accepted"} ELSE {"BufferError"})
        \cup {"Exception"}

attempt(i, outcome, sq) ==
    /\ outcome \in ProduceOutcomes
    /\ CASE outcome = "accepted" ->
              /\ inflight' = Append(inflight, i)
              /\ accepted' = Append(accepted, i)
              /\ task' = [task EXCEPT ![i] = "accepted"]
              /\ sleepq' = sq
              /\ UNCHANGED <<fut, bufErrs, taskErrs, resolved>>
         [] outcome = "BufferError" ->
              /\ bufErrs[i] < MaxBufErrs
              /\ bufErrs' = [bufErrs EXCEPT ![i] = @ + 1]
              /\ task' = [task EXCEPT ![i] = "sleeping"]
              /\ sleepq' = Append(sq, i)
              /\ UNCHANGED <<fut, inflight, accepted, taskErrs, resolved>>
         [] OTHER ->
              /\ task' = [task EXCEPT ![i] = "failed"]
              /\ sleepq' = sq
              /\ IF fut[i].st = "pending"
                 THEN /\ fut' = [fut EXCEPT ![i] =
                                    [st |-> "exception", exc |-> "Exception"]]
                      /\ resolved' = Append(resolved, i)
                      /\ UNCHANGED taskErrs
                 ELSE /\ taskErrs' = Append(taskErrs,
                                        [item |-> i, exc |-> "InvalidStateError"])
                      /\ UNCHANGED <<fut, resolved>>
              /\ UNCHANGED <<bufErrs, inflight, accepted>>
    /\ last' = [op |-> outcome, arg |-> i, ret |-> 0]
    /\ UNCHANGED <<received, futures, emitted, stopped, pollpc, cbLog,
                   spurious>>
    /\ UNCHANGED sinkVars

(* the IO loop runs the callback update() added: first pass of the loop *)
submit ==
    /\ taskq # <<>>
    /\ taskq' = Tail(taskq)
    /\ \E outcome \in ProduceOutcomes :
           attempt(Head(taskq), outcome, sleepq)

(* gen.sleep(polltime) is over for the coroutine that has slept longest *)
retry ==
    /\ sleepq # <<>>
    /\ UNCHANGED taskq
    /\ \E outcome \in ProduceOutcomes :
           attempt(Head(sleepq), outcome, Tail(sleepq))

(* ----------------------------------------------------------------- poll *)
(* one wake of poll(): leave when stopped, else producer.poll(0) serves    *)
(* the callbacks of the k oldest messages that are delivered by now        *)
(* an exception that cb raises to producer.poll leaves poll() *)
AfterPoll(s) ==
    IF \E n \in 1..Len(s.cbLog) : s.cbLog[n].raised # None
    THEN "failed" ELSE "sleeping"

(* poll() with while True *)
poll_ignoresStopped ==
    /\ pollpc \in {"scheduled", "sleeping"}
    /\ \E k \in 0..Len(inflight) :
       \E kinds \in [1..k -> ReportKinds] :
           LET s == serve(Sink, Prefix(inflight, k), kinds)
           IN  /\ SetSink(s)
               /\ inflight' = Drop(inflight, k)
               /\ pollpc' = AfterPoll(s)
               /\ last' = [op |-> "poll", arg |-> 0, ret |-> k]
    /\ UNCHANGED <<received, taskq, sleepq, task, bufErrs, accepted, stopped,
                   taskErrs, spurious>>
    /\ UNCHANGED sinkVars

poll ==
    /\ pollpc \in {"scheduled", "sleeping"}
    /\ IF stopped
       THEN /\ pollpc' = "exited"
            /\ last' = [op |-> "poll_exit", arg |-> 0, ret |-> 0]
            /\ UNCHANGED <<futures, fut, emitted, cbLog, resolved, inflight>>
       ELSE \E k \in 0..Len(inflight) :
            \E kinds \in [1..k -> ReportKinds] :
                LET s == serve(Sink, Prefix(inflight, k), kinds)
                IN  /\ SetSink(s)
                    /\ inflight' = Drop(inflight, k)
                    /\ pollpc' = AfterPoll(s)
                    /\ last' = [op |-> "poll", arg |-> 0, ret |-> k]
    /\ UNCHANGED <<received, taskq, sleepq, task, bufErrs, accepted, stopped,
                   taskErrs, spurious>>
    /\ UNCHANGED sinkVars

(* a wake of poll() in which the producer invokes cb although no           *)
(* submission is outstanding                                               *)
pollSpurious ==
    /\ pollpc \in {"scheduled", "sleeping"}
    /\ ~stopped
    /\ spurious < MaxSpurious
    /\ inflight = <<>>
    /\ \E kind \in ReportKinds :
           LET s == serve(Sink, <<0>>, <<kind>>)
           IN  /\ SetSink(s)
               /\ pollpc' = AfterPoll(s)
    /\ spurious' = spurious + 1
    /\ last' = [op |-> "spurious", arg |-> 0, ret |-> 0]
    /\ UNCHANGED <<received, taskq, sleepq, task, bufErrs, inflight, accepted,
                   stopped, taskErrs>>
    /\ UNCHANGED sinkVars

(* ---------------------------------------------------------------- flush *)
(* producer.flush(timeout): serves callbacks until nothing is outstanding  *)
(* or the timeout is over (-1: no timeout); returns what is outstanding    *)
Timeouts == {-1, 0}

(* flush() runs in the thread of its caller, and so do the callbacks that  *)
(* producer.flush serves: cbThreads are the threads on which cb has run   *)
Threads == {"loop", "caller"}

flush(timeout) ==
    /\ \E k \in 0..Len(inflight) :
       \E kinds \in [1..k -> ReportKinds] :
       \E thread \in Threads :
           /\ timeout = -1 => k = Len(inflight)
           /\ SetSink(serve(Sink, Prefix(inflight, k), kinds))
           /\ inflight' = Drop(inflight, k)
           /\ last' = [op |-> "flush", arg |-> timeout,
                       ret |-> Len(inflight) - k,
                       cbThreads |-> IF k = 0 THEN {} ELSE {thread}]
    /\ UNCHANGED <<received, taskq, sleepq, task, bufErrs, accepted, stopped,
                   pollpc, taskErrs, spurious>>
    /\ UNCHANGED sinkVars

(* ------------------------------------------- Sink, sink, sink_to_textfile *)
Ends == {<<"\n">>, <<";">>}                    \* end, a str
ArgLists == {<<>>, <<"a1">>}                   \* *args of sink
FuncReturns == {"awaitable", "value"}          \* what func returns
WriteOutcomes == {"ok", "IOError"}             \* what self._fp.write does
EmptyList == "[]"
Str(x) == <<x>>                                \* the characters of x

Constructed == {id \in SinkIds : sinks[id].kind # "none"}
Reachable(id) == id \in global_sinks \/ sinks[id].held

RECURSIVE Deliveries(_)
Deliveries(ids) ==
    IF ids = {} THEN 0
    ELSE LET id == CHOOSE i \in ids : TRUE
         IN  Len(sinks[id].delivered) + Deliveries(ids \ {id})

(* Sink.__init__: Stream.__init__, then _global_sinks.add(self);           *)
(* to_kafka.__init__ calls Stream.__init__ itself                          *)
Registered(kind, id) ==
    IF kind \in SinkKinds THEN global_sinks \cup {id} ELSE global_sinks

(* the constructors; held: the caller keeps the object that is returned *)
construct(kind, held, end, args) ==
    LET id == kind
    IN  /\ id \notin Constructed
        /\ kind = "sink_to_textfile" \/ end = <<"\n">>
        /\ kind = "sink" \/ args = <<>>
        /\ sinks' = [sinks EXCEPT ![id] =
               [kind |-> kind, held |-> held, torn |-> FALSE,
                end |-> end, closed |-> FALSE, content |-> <<>>,
                args |-> args, calls |-> <<>>,
                delivered |-> <<>>, results |-> <<>>]]
        /\ global_sinks' = Registered(kind, id)
        /\ last' = [op |-> "construct", arg |-> id, ret |-> None]
        /\ UNCHANGED kafkaVars

(* sink.update that calls self.func(x) without self.args *)
sinkUpdate_dropsArgs(id, x, ret) ==
    /\ id \in Constructed
    /\ sinks[id].kind = "sink"
    /\ Reachable(id)
    /\ Deliveries(Constructed) < MaxDeliveries
    /\ LET result == IF ret = "awaitable" THEN ret ELSE EmptyList
       IN  /\ sinks' = [sinks EXCEPT
                 ![id].calls = Append(@, <<x>>),
                 ![id].delivered = Append(@, [x |-> x, out |-> ret]),
                 ![id].results = Append(@, result)]
           /\ last' = [op |-> "sink.update", arg |-> id, ret |-> result]
    /\ UNCHANGED <<global_sinks, kafkaVars>>

(* sink.update(x): func returns ret *)
sinkUpdate(id, x, ret) ==
    /\ id \in Constructed
    /\ sinks[id].kind = "sink"
    /\ Reachable(id)
    /\ Deliveries(Constructed) < MaxDeliveries
    /\ LET result == IF ret = "awaitable" THEN ret ELSE EmptyList
       IN  /\ sinks' = [sinks EXCEPT
                 ![id].calls = Append(@, <<x>> \o sinks[id].args),
                 ![id].delivered = Append(@, [x |-> x, out |-> ret]),
                 ![id].results = Append(@, result)]
           /\ last' = [op |-> "sink.update", arg |-> id, ret |-> result]
    /\ UNCHANGED <<global_sinks, kafkaVars>>

(* sink_to_textfile.update with self._fp.write(x) *)
textUpdate_noEnd(id, x, out) ==
    /\ id \in Constructed
    /\ sinks[id].kind = "sink_to_textfile"
    /\ Reachable(id)
    /\ Deliveries(Constructed) < MaxDeliveries
    /\ LET raised == IF sinks[id].closed THEN "ValueError"
                     ELSE IF out = "ok" THEN None ELSE out
       IN  /\ sinks' = [sinks EXCEPT
                 ![id].content = IF raised = None THEN @ \o Str(x) ELSE @,
                 ![id].delivered = Append(@, [x |-> x, out |-> raised]),
                 ![id].results = Append(@, raised)]
           /\ last' = [op |-> "text.update", arg |-> id, ret |-> raised]
    /\ UNCHANGED <<global_sinks, kafkaVars>>

(* sink_to_textfile.update(x): self._fp.write(x + self._end) does out;     *)
(* writing to a closed file raises ValueError; what write raises leaves    *)
(* update                                                                  *)
textUpdate(id, x, out) ==
    /\ id \in Constructed
    /\ sinks[id].kind = "sink_to_textfile"
    /\ Reachable(id)
    /\ Deliveries(Constructed) < MaxDeliveries
    /\ LET raised == IF sinks[id].closed THEN "ValueError"
                     ELSE IF out = "ok" THEN None ELSE out
       IN  /\ sinks' = [sinks EXCEPT
                 ![id].content = IF raised = None
                                 THEN @ \o (Str(x) \o sinks[id].end)
                                 ELSE @,
                 ![id].delivered = Append(@, [x |-> x, out |-> raised]),
                 ![id].results = Append(@, raised)]
           /\ last' = [op |-> "text.update", arg |-> id, ret |-> raised]
    /\ UNCHANGED <<global_sinks, kafkaVars>>

(* Stream.destroy, which Sink.destroy calls first and to_kafka inherits:   *)
(* the object is disconnected from its upstreams                           *)
StreamDestroy(id) == [sinks EXCEPT ![id].torn = TRUE]

(* Sink.destroy with _global_sinks.discard(self) *)
destroy_discard(id) ==
    /\ id \in Constructed
    /\ Reachable(id)
    /\ sinks' = StreamDestroy(id)
    /\ global_sinks' = IF sinks[id].kind \in SinkKinds
                       THEN global_sinks \ {id} ELSE global_sinks
    /\ last' = [op |-> "destroy", arg |-> id, ret |-> None]
    /\ UNCHANGED kafkaVars

(* destroy(): Sink.destroy for the subclasses of Sink, where               *)
(* _global_sinks.remove(self) raises KeyError when self is not a member    *)
destroy(id) ==
    /\ id \in Constructed
    /\ Reachable(id)
    /\ sinks' = StreamDestroy(id)
    /\ IF sinks[id].kind \in SinkKinds
       THEN IF id \in global_sinks
            THEN /\ global_sinks' = global_sinks \ {id}
                 /\ last' = [op |-> "destroy", arg |-> id, ret |-> None]
            ELSE /\ global_sinks' = global_sinks
                 /\ last' = [op |-> "destroy", arg |-> id, ret |-> "KeyError"]
       ELSE /\ global_sinks' = global_sinks
            /\ last' = [op |-> "destroy", arg |-> id, ret |-> None]
    /\ UNCHANGED kafkaVars

(* the caller drops the object it held *)
dropRef(id) ==
    /\ id \in Constructed
    /\ sinks[id].held
    /\ sinks' = [sinks EXCEPT ![id].held = FALSE]
    /\ last' = [op |-> "del", arg |-> id, ret |-> None]
    /\ UNCHANGED <<global_sinks, kafkaVars>>

(* the object is collected: weakref.finalize(self, self._fp.close) runs *)
finalize(id) ==
    /\ id \in Constructed
    /\ sinks[id].kind = "sink_to_textfile"
    /\ ~Reachable(id)
    /\ ~sinks[id].closed
    /\ sinks' = [sinks EXCEPT ![id].closed = TRUE]
    /\ last' = [op |-> "finalize", arg |-> id, ret |-> None]
    /\ UNCHANGED <<global_sinks, kafkaVars>>

NextSinks ==
    \/ \E kind \in Kinds : \E held \in BOOLEAN :
       \E end \in Ends : \E args \in ArgLists :
           construct(kind, held, end, args)
    \/ \E id \in SinkIds : \E x \in Values : \E ret \in FuncReturns :
           sinkUpdate(id, x, ret)
    \/ \E id \in SinkIds : \E x \in Values : \E out \in WriteOutcomes :
           textUpdate(id, x, out)
    \/ \E id \in SinkIds : destroy(id)
    \/ \E id \in SinkIds : dropRef(id)
    \/ \E id \in SinkIds : finalize(id)

SpecSinks == Init /\ [][NextSinks]_vars

Next ==
    \/ \E x \in Values : update(x)
    \/ submit
    \/ retry
    \/ poll
    \/ \E timeout \in Timeouts : flush(timeout)

Spec == Init /\ [][Next]_vars

NextViolation == Next \/ pollSpurious

SpecViolation == Init /\ [][NextViolation]_vars

(* --------------------------------------------------- teardown of to_kafka *)
(* to_kafka defines no destroy(): teardown is the destroy() of Stream,      *)
(* which sets the stop flag of the sink                                     *)
teardown ==
    /\ ~stopped
    /\ stopped' = TRUE
    /\ last' = [op |-> "teardown", arg |-> 0, ret |-> 0]
    /\ UNCHANGED <<received, futures, fut, taskq, sleepq, task, bufErrs,
                   inflight, accepted, emitted, pollpc, cbLog, taskErrs,
                   resolved, spurious>>
    /\ UNCHANGED sinkVars

NextTeardown ==
    \/ teardown
    \/ \E x \in Values : Len(received) < TeardownItems /\ update(x)
    \/ submit
    \/ retry
    \/ poll
    \/ \E timeout \in Timeouts : flush(timeout)

SpecTeardown == Init /\ [][NextTeardown]_vars

(* the IO loop wakes poll() when gen.sleep(polltime) is over *)
SpecTeardownFair == SpecTeardown /\ WF_vars(poll)

(* ------------------------------------------------------------- claims *)
Items == 1..Len(received)
Calls == 1..Len(cbLog)
IsResolved(h) == fut[h].st \in {"result", "exception"}

(* no submission attempt was refused so far *)
AllFirstAttempt == \A i \in Items : bufErrs[i] = 0 /\ task[i] # "failed"
AllAccepted == \A i \in Items : task[i] = "accepted"
NoBufferError == \A i \in Items : bufErrs[i] = 0
NoSubmitFailure == \A i \in Items : task[i] # "failed"
FlushedAll == last.op = "flush" /\ last.ret = 0

(* C1: when every submission is accepted at the first attempt, handles are
   resolved in the order they were appended to self.futures, each by the
   callback of its own item; and when a flush that leaves nothing
   outstanding returns after the N submissions were accepted, exactly N
   callbacks have fired and self.futures is empty. *)
C1_FifoThenFlushed ==
    AllFirstAttempt =>
        /\ \A n \in 1..Len(resolved) : \A m \in 1..Len(resolved) :
               n < m => resolved[n] < resolved[m]
        /\ \A n \in Calls : cbLog[n].handle = n /\ cbLog[n].item = n
        /\ (FlushedAll /\ AllAccepted) =>
               /\ futures = <<>>
               /\ Len(cbLog) = Len(received)

C1_Witness ==
    /\ AllFirstAttempt
    /\ AllAccepted
    /\ FlushedAll
    /\ Len(received) = MaxItems
    /\ Len(cbLog) = MaxItems
    /\ Len(resolved) = MaxItems
    /\ futures = <<>>

(* C2: whatever the interleaving of update calls, backpressure retries and
   callbacks, the callback that reports the delivery of item X pops and
   resolves the handle that update returned for X. *)
C2_OutcomeOnOwnHandle ==
    NoSubmitFailure =>
        \A n \in Calls : cbLog[n].handle = cbLog[n].item

(* C3: the handle of an item is not resolved before a submission attempt
   for that item has been accepted or has failed with an error other than
   BufferError; an item whose attempts all raised BufferError is still
   retrying. *)
C3_NoResolveWhileRetrying ==
    \A i \in Items :
        /\ IsResolved(i) => task[i] \in {"accepted", "failed"}
        /\ (bufErrs[i] > 0 /\ task[i] \notin {"accepted", "failed"})
               => task[i] = "sleeping"

(* C4: a failed submission of X leaves the other items alone: every
   callback still pops the handle of its own item and no callback raises. *)
C4_FailureIsLocal ==
    NoBufferError =>
        \A n \in Calls :
            /\ cbLog[n].handle = cbLog[n].item
            /\ cbLog[n].exc = None

(* C5: set_result and set_exception are never called on a handle that is
   already resolved. *)
C5_ResolveOnce ==
    /\ \A n \in Calls : cbLog[n].exc # "InvalidStateError"
    /\ \A n \in 1..Len(taskErrs) : taskErrs[n].exc # "InvalidStateError"

(* C6: once every submission coroutine has returned and the producer has
   reported every accepted message, with an error or with the payload,
   every handle that update returned is resolved. *)
Quiescent == taskq = <<>> /\ sleepq = <<>> /\ inflight = <<>>

C6_AllResolvedAtRest ==
    Quiescent => \A i \in Items : IsResolved(i)

(* C7: a callback with err set, or with a message without payload,
   resolves the pending handle it popped with a failure carrying the
   error, and emits nothing. *)
C7_ErrorMeansFailure ==
    \A n \in Calls :
        LET c == cbLog[n]
        IN  (/\ c.err # None \/ ~c.msg.present \/ c.msg.value = None
             /\ c.handle # 0
             /\ c.exc # "InvalidStateError")
            => /\ c.did = "set_exception"
               /\ c.emit = <<>>

(* C8: when the submissions are accepted in the order of the update calls
   and every callback so far reported success with the payload of its
   item, the values emitted are the received values in the same order, one
   per callback, and the handle of every emitted value is resolved with
   success. *)
AcceptedInOrder == \A n \in 1..Len(accepted) : accepted[n] = n
CleanReports ==
    \A n \in Calls :
        /\ cbLog[n].item # 0
        /\ cbLog[n].err = None
        /\ cbLog[n].msg = Msg(received[cbLog[n].item], None)

C8_EmitsReceivedInOrder ==
    (NoSubmitFailure /\ AcceptedInOrder /\ CleanReports) =>
        /\ emitted = SubSeq(received, 1, Len(cbLog))
        /\ \A n \in 1..Len(emitted) : fut[n].st = "result"
        /\ \A n \in Calls : cbLog[n].did = "set_result"

C8_Witness ==
    /\ NoSubmitFailure
    /\ AcceptedInOrder
    /\ CleanReports
    /\ Len(emitted) = MaxItems
    /\ \E n \in 1..MaxItems : \E m \in 1..MaxItems : emitted[n] # emitted[m]
    /\ \E i \in Items : bufErrs[i] > 0

(* C9: a callback that finds self.futures empty raises ProtocolError to its
   invoker. *)
C9_EmptyQueueRaises ==
    \A n \in Calls :
        cbLog[n].exc = "IndexError" => cbLog[n].raised = "ProtocolError"

(* C10: when a submission fails with an error other than BufferError, the
   handle of that item is resolved with that error, and no callback is
   matched to that handle afterwards. *)
C10_FailedHandleLeavesQueue ==
    NoBufferError =>
        \A i \in Items :
            task[i] = "failed" =>
                /\ fut[i] = [st |-> "exception", exc |-> "Exception"]
                /\ \A n \in Calls : cbLog[n].handle # i

(* C18: self.futures holds exactly the handles of the messages that the
   producer has accepted and not yet reported, in acceptance order: none of
   an item that is still retrying, none that is resolved, and never more
   than the producer's buffer holds. *)
InQueue(h) == \E n \in 1..Len(futures) : futures[n] = h

C18_QueueIsOutstanding ==
    /\ futures = inflight
    /\ \A h \in Items :
           InQueue(h) => task[h] # "sleeping" /\ fut[h].st = "pending"
    /\ Len(futures) <= BufferCap

(* C20: once a callback has found self.futures empty, poll() makes no
   further call of producer.poll and an update call schedules no
   submission. *)
ProtocolViolated == \E n \in Calls : cbLog[n].exc = "IndexError"

C20_ViolationStopsSink ==
    [][ProtocolViolated =>
          /\ last'.op \notin {"poll", "spurious"}
          /\ last'.op = "update" => taskq' = taskq]_vars

(* C15: every run of cb that pops self.futures is on the thread of the IO
   loop, also when the producer serves the callback inside flush(). *)
C15_PopsOnLoopThread ==
    last.op = "flush" => last.cbThreads \subseteq {"loop"}

(* ------------------------------------------ claims on the registry etc. *)
Destroyed(id) == last'.op = "destroy" /\ last'.arg = id

(* C11 as stated: destroy() of a sink removes it from _global_sinks; a
   second destroy() of the same sink signals InvalidStateError and leaves
   _global_sinks as it was. *)
C11_SecondTeardownInvalidState ==
    [][\A id \in SinkKinds :
          (id \in Constructed /\ Destroyed(id)) =>
              IF sinks[id].torn
              THEN /\ last'.ret = "InvalidStateError"
                   /\ global_sinks' = global_sinks
              ELSE /\ id \in global_sinks
                   /\ last'.ret = None
                   /\ global_sinks' = global_sinks \ {id}]_vars

(* C11 as amended: destroy() of a sink removes it from _global_sinks; a
   second destroy() of the same sink raises KeyError and leaves
   _global_sinks, and so the membership of every other sink, as it was. *)
C11_SecondTeardownKeyError ==
    [][\A id \in SinkKinds :
          (id \in Constructed /\ Destroyed(id)) =>
              IF sinks[id].torn
              THEN /\ last'.ret = "KeyError"
                   /\ global_sinks' = global_sinks
              ELSE /\ id \in global_sinks
                   /\ last'.ret = None
                   /\ global_sinks' = global_sinks \ {id}]_vars

C11_Witness ==
    /\ last.op = "destroy"
    /\ last.ret = "KeyError"
    /\ last.arg \notin global_sinks
    /\ global_sinks # {}

(* C12: every sink that was constructed and not torn down, whatever its
   class, is in _global_sinks, and no sink that was torn down is. *)
C12_LiveSinksRegistered ==
    \A id \in Constructed :
        IF sinks[id].torn THEN id \notin global_sinks
                          ELSE id \in global_sinks

(* C16: after N update calls on a sink, func has been called N times, in
   the order of the calls, each time with the item followed by self.args,
   and each update returned what func returned when that is awaitable and
   the empty list otherwise. *)
C16_FuncCalledOncePerItem ==
    LET f == sinks["sink"]
    IN  f.kind # "none" =>
            /\ Len(f.calls) = Len(f.delivered)
            /\ Len(f.results) = Len(f.delivered)
            /\ \A n \in 1..Len(f.delivered) :
                   /\ f.calls[n] = <<f.delivered[n].x>> \o f.args
                   /\ f.results[n] = IF f.delivered[n].out = "awaitable"
                                     THEN "awaitable" ELSE EmptyList

C16_Witness ==
    LET f == sinks["sink"]
    IN  /\ f.kind = "sink"
        /\ f.args # <<>>
        /\ Len(f.calls) = MaxDeliveries
        /\ f.calls[1] # f.calls[2]
        /\ f.results[1] # f.results[2]

(* C17: the content written by a sink_to_textfile after the items x1..xn
   is x1 + end + ... + xn + end, counting the items whose write succeeded;
   a write that fails adds nothing and its error is what update raises. *)
RECURSIVE Written(_, _)
Written(log, end) ==
    IF log = <<>> THEN <<>>
    ELSE LET d == log[Len(log)]
             before == Written(SubSeq(log, 1, Len(log) - 1), end)
         IN  IF d.out = None THEN before \o <<d.x>> \o end ELSE before

C17_ContentIsItemsWithEnd ==
    LET t == sinks["sink_to_textfile"]
    IN  t.kind # "none" =>
            /\ t.content = Written(t.delivered, t.end)
            /\ Len(t.results) = Len(t.delivered)
            /\ \A n \in 1..Len(t.delivered) :
                   t.results[n] = t.delivered[n].out

C17_Witness ==
    LET t == sinks["sink_to_textfile"]
    IN  /\ t.kind = "sink_to_textfile"
        /\ t.end = <<"\n">>
        /\ t.content = <<"x", "\n", "y", "\n">>

(* C19: when destroy() of a sink_to_textfile has returned, its file is
   closed. *)
C19_DestroyClosesFile ==
    (last.op = "destroy" /\ last.arg = "sink_to_textfile")
        => sinks["sink_to_textfile"].closed

(* ------------------------------------------------ claims on the teardown *)
(* C13: after the teardown of a to_kafka the stop flag is set, poll()
   leaves its loop at its next wake, so that the coroutine ends, and
   producer.poll is not called once the flag is set. *)
C13_PollExitsAfterTeardown ==
    /\ [](last.op = "teardown" => stopped)
    /\ stopped ~> (pollpc = "exited")
    /\ [][stopped => last'.op # "poll"]_vars
    /\ [][pollpc = "exited" => pollpc' = "exited"]_vars

C13_Witness ==
    /\ stopped
    /\ pollpc = "exited"
    /\ last.op = "poll_exit"
    /\ inflight # <<>>

(* C14: an update call on a to_kafka that was torn down appends no handle
   to self.futures and schedules no submission. *)
C14_NoSubmissionAfterTeardown ==
    [][(stopped /\ last'.op = "update") =>
           /\ futures' = futures
           /\ taskq' = taskq]_vars

====
